---- MODULE Spec2Model ----
(***************************************************************************)
(* rpad (datafusion/functions/src/unicode/rpad.rs): RPadFunc::invoke, the  *)
(* generic function rpad<StringArrayLen, FillArrayLen> and the two arms of *)
(* the process_rpad! macro.                                                *)
(*                                                                         *)
(* A Rust String is the sequence of its code points.  Option<T> is a       *)
(* sequence of length 0 (None) or 1 (Some).  An i64 is kept at its width   *)
(* as two limbs, value = hi * 2^31 + lo with 0 <= lo <= 2^31 - 1, because  *)
(* the comparison with i32::MAX is the point of the range check.           *)
(***************************************************************************)
EXTENDS Integers, Sequences, FiniteSets, TLC

VARIABLES
    \* one row through the two closures of process_rpad!
    string, length, fill, out2, out3,
    \* one call of RPadFunc::invoke
    args, pc, StringArrayLen, FillArrayLen, string_array, fill_array,
    idx, collected, result,
    \* the same column processed in one pass and in two row-range chunks
    cargs, cut, wpos, wbuf, wres, joined

rowVars   == <<string, length, fill, out2, out3>>
callVars  == <<args, pc, StringArrayLen, FillArrayLen, string_array, fill_array,
               idx, collected, result>>
chunkVars == <<cargs, cut, wpos, wbuf, wres, joined>>
vars      == <<rowVars, callVars, chunkVars>>

----------------------------------------------------------------------------
(* Bounds of the model *)

MaxStrLen  == 3   \* code points in a source string
MaxFillLen == 2   \* code points in a fill string
MaxLength  == 4   \* largest in-range target length that is materialised
MaxRows    == 2   \* rows of a column in one call
MaxArgs    == 4   \* arguments handed to invoke
MaxChunkRows == 3 \* rows of a column that is split in two chunks

----------------------------------------------------------------------------
(* Values *)

None    == <<>>
Some(v) == <<v>>

Ok(v)  == [tag |-> "Ok",  val |-> v]
Err(m) == [tag |-> "Err", val |-> m]

I32_MAX == 2147483647

I64(h, l) == [hi |-> h, lo |-> l]

\* a small integer n >= -1 as an i64
i64_of(n) == IF n >= 0 THEN I64(0, n) ELSE I64(-1, I32_MAX + (n + 1))

\* i32::MAX as i64
i32_max_as_i64 == I64(0, I32_MAX)

\* 2147483648, the first length the range check refuses
TooLarge == I64(1, 0)

i64_gt(a, b) == a.hi > b.hi \/ (a.hi = b.hi /\ a.lo > b.lo)
i64_lt(a, b) == i64_gt(b, a)

\* `length as usize` of a length in 0 ..= i32::MAX
as_usize(l) == l.lo

\* code points: two letters, a space, and U+0301 COMBINING ACUTE ACCENT ("m")
Letters == {"a", "b"}
Space   == " "
Mark    == "m"
Chars   == Letters \cup {Space, Mark}

\* Grapheme_Cluster_Break = Extend
IsExtend(c) == c = Mark

StringsUpTo(n) == UNION {[1..k -> Chars] : k \in 0..n}

RECURSIVE concat(_)
\* [&str]::concat
concat(parts) ==
    IF parts = <<>> THEN <<>> ELSE Head(parts) \o concat(Tail(parts))

RECURSIVE graphemes(_)
\* str::graphemes(true): extended grapheme clusters.  Over Chars the only
\* rule that joins is GB9 (no break before Extend); the start of the text
\* always begins a cluster (GB1).
graphemes(s) ==
    IF s = <<>> THEN <<>>
    ELSE LET n    == Len(s)
             c    == s[n]
             prev == graphemes(SubSeq(s, 1, n - 1))
         IN  IF IsExtend(c) /\ prev # <<>>
             THEN [prev EXCEPT ![Len(prev)] = Append(@, c)]
             ELSE Append(prev, <<c>>)

\* str::repeat for a one-character string
repeat(c, n) == [i \in 1..n |-> c]

\* the error of exec_err!("rpad requested length {} too large", length)
length_too_large(l) == Err(<<"rpad requested length too large", l>>)

----------------------------------------------------------------------------
(* process_rpad!: the closure mapped over the rows, one per arm *)

\* variant: `length >= i32::MAX as i64`
too_large_inclusive(l) == ~i64_lt(l, i32_max_as_i64)

\* `length > i32::MAX as i64`
too_large(l) == i64_gt(l, i32_max_as_i64)

\* variant: a negative length counts by its absolute value
requested_abs(l) ==
    IF i64_lt(l, i64_of(0)) THEN (I32_MAX - l.lo) + 1 ELSE as_usize(l)

\* `let length = if length < 0 { 0 } else { length as usize }`
requested(l) == IF i64_lt(l, i64_of(0)) THEN 0 ELSE as_usize(l)

\* variant: `graphemes[..=length].concat()`
truncated_inclusive(g, len) == concat(SubSeq(g, 1, len + 1))

\* `graphemes[..length].concat()`
truncated(g, len) == concat(SubSeq(g, 1, len))

\* variant: the cycle starts at the second fill character
fill_cycle_shifted(fill_chars, n) ==
    [i \in 1..n |-> fill_chars[(i % Len(fill_chars)) + 1]]

\* variant: `0..=length - graphemes.len()`
fill_cycle_inclusive(fill_chars, n) ==
    [i \in 1..(n + 1) |-> fill_chars[((i - 1) % Len(fill_chars)) + 1]]

\* `(0..length - graphemes.len()).map(|l| fill_chars[l % fill_chars.len()])`
fill_cycle(fill_chars, n) ==
    [i \in 1..n |-> fill_chars[((i - 1) % Len(fill_chars)) + 1]]

\* variant: length 0 returns the source unchanged
process_rpad2_keep_at_zero(s, l) ==
    IF s # None /\ l # None
    THEN IF too_large(l[1])
         THEN length_too_large(l[1])
         ELSE LET len == requested(l[1])
              IN  IF len = 0
                  THEN Ok(s)
                  ELSE LET g == graphemes(s[1])
                       IN  IF len < Len(g)
                           THEN Ok(Some(truncated(g, len)))
                           ELSE Ok(Some(s[1] \o repeat(Space, len - Len(g))))
    ELSE Ok(None)

\* two-argument arm
process_rpad2(s, l) ==
    IF s # None /\ l # None
    THEN IF too_large(l[1])
         THEN length_too_large(l[1])
         ELSE LET len == requested(l[1])
              IN  IF len = 0
                  THEN Ok(Some(<<>>))
                  ELSE LET g == graphemes(s[1])
                       IN  IF len < Len(g)
                           THEN Ok(Some(truncated(g, len)))
                           ELSE Ok(Some(s[1] \o repeat(Space, len - Len(g))))
    ELSE Ok(None)

\* variant: the range check comes before the null checks
process_rpad3_range_first(s, l, f) ==
    IF l # None /\ too_large(l[1])
    THEN length_too_large(l[1])
    ELSE IF s # None /\ l # None /\ f # None
    THEN LET len        == requested(l[1])
             g          == graphemes(s[1])
             fill_chars == f[1]
         IN  IF len < Len(g)
             THEN Ok(Some(truncated(g, len)))
             ELSE IF fill_chars = <<>>
             THEN Ok(Some(s[1]))
             ELSE Ok(Some(s[1] \o fill_cycle(fill_chars, len - Len(g))))
    ELSE Ok(None)

\* three-argument arm
process_rpad3(s, l, f) ==
    IF s # None /\ l # None /\ f # None
    THEN IF too_large(l[1])
         THEN length_too_large(l[1])
         ELSE LET len        == requested(l[1])
                  g          == graphemes(s[1])
                  fill_chars == f[1]
              IN  IF len < Len(g)
                  THEN Ok(Some(truncated(g, len)))
                  ELSE IF fill_chars = <<>>
                  THEN Ok(Some(s[1]))
                  ELSE Ok(Some(s[1] \o fill_cycle(fill_chars, len - Len(g))))
    ELSE Ok(None)

----------------------------------------------------------------------------
(* Inputs *)

OptStrings(n) == {None} \cup {Some(s) : s \in StringsUpTo(n)}

\* null, -1 .. MaxLength, i32::MAX and i32::MAX + 1
Lengths ==
    {None} \cup {Some(i64_of(n)) : n \in (-1)..MaxLength}
           \cup {Some(i32_max_as_i64), Some(TooLarge)}

NotRun == [tag |-> "NotRun", val |-> <<>>]

\* A row padded to i32::MAX characters is not built: a length of exactly
\* i32::MAX comes with a null source here, and with an empty fill in Spec.
RowInputs ==
    {r \in [string : OptStrings(MaxStrLen), length : Lengths,
            fill : OptStrings(MaxFillLen)] :
        r.length = Some(i32_max_as_i64) => r.string = None}

CallIdle ==
    /\ args = <<>>
    /\ pc = "idle"
    /\ StringArrayLen = "-"
    /\ FillArrayLen = "-"
    /\ string_array = "-"
    /\ fill_array = "-"
    /\ idx = 0
    /\ collected = <<>>
    /\ result = NotRun

ChunkIdle ==
    /\ cargs = <<>>
    /\ cut = 0
    /\ wpos = <<>>
    /\ wbuf = <<>>
    /\ wres = <<>>
    /\ joined = NotRun

RowIdle ==
    /\ string = None
    /\ length = None
    /\ fill = None
    /\ out2 = NotRun
    /\ out3 = NotRun

----------------------------------------------------------------------------
(* SpecRow: one row (string, length, fill) through both closures *)

InitRow ==
    /\ \E r \in RowInputs :
          /\ string = r.string
          /\ length = r.length
          /\ fill = r.fill
    /\ out2 = NotRun
    /\ out3 = NotRun
    /\ CallIdle
    /\ ChunkIdle

\* rpad(string, length)
Row2 ==
    /\ out2 = NotRun
    /\ out2' = process_rpad2(string, length)
    /\ UNCHANGED <<string, length, fill, out3, callVars, chunkVars>>

\* rpad(string, length, fill)
Row3 ==
    /\ out3 = NotRun
    /\ out3' = process_rpad3(string, length, fill)
    /\ UNCHANGED <<string, length, fill, out2, callVars, chunkVars>>

NextRow == Row2 \/ Row3

SpecRow == InitRow /\ [][NextRow]_vars

----------------------------------------------------------------------------
(* Spec: one call of RPadFunc::invoke on columns *)

DataTypes == {"Utf8", "LargeUtf8", "Utf8View", "Int64", "Boolean"}

\* RPadFunc::new: the twelve Exact signatures
signature ==
    { <<"Utf8View", "Int64">>,
      <<"Utf8View", "Int64", "Utf8View">>,
      <<"Utf8View", "Int64", "Utf8">>,
      <<"Utf8View", "Int64", "LargeUtf8">>,
      <<"Utf8", "Int64">>,
      <<"Utf8", "Int64", "Utf8View">>,
      <<"Utf8", "Int64", "Utf8">>,
      <<"Utf8", "Int64", "LargeUtf8">>,
      <<"LargeUtf8", "Int64">>,
      <<"LargeUtf8", "Int64", "Utf8View">>,
      <<"LargeUtf8", "Int64", "Utf8">>,
      <<"LargeUtf8", "Int64", "LargeUtf8">> }

Column(t, v) == [data_type |-> t, values |-> v]

TypesOf(a) == [i \in 1..Len(a) |-> a[i].data_type]

NumRows(a) == IF a = <<>> THEN 0 ELSE Len(a[1].values)

\* variant: a LargeUtf8 source always runs rpad::<i64, i64>
invoke_dispatch_wide_fill(types) ==
    IF Len(types) = 2
    THEN IF types[1] \in {"Utf8", "Utf8View"} THEN Ok(<<"i32", "i32">>)
         ELSE IF types[1] = "LargeUtf8" THEN Ok(<<"i64", "i64">>)
         ELSE Err(<<"Unsupported data type for function rpad", types[1]>>)
    ELSE IF Len(types) = 3
    THEN IF types[1] \in {"Utf8", "Utf8View"} /\ types[3] \in {"Utf8", "Utf8View"}
         THEN Ok(<<"i32", "i32">>)
         ELSE IF types[1] = "LargeUtf8" /\ types[3] \in {"LargeUtf8", "Utf8View", "Utf8"}
         THEN Ok(<<"i64", "i64">>)
         ELSE IF types[1] \in {"Utf8View", "Utf8"} /\ types[3] = "LargeUtf8"
         THEN Ok(<<"i32", "i64">>)
         ELSE Err(<<"unsupported arguments type for rpad", types[1], types[3]>>)
    ELSE Err(<<"unsupported arguments number for rpad", Len(types)>>)

\* RPadFunc::invoke: the instantiation rpad::<StringArrayLen, FillArrayLen>
\* the call is handed to, or the error it ends with
invoke_dispatch(types) ==
    IF Len(types) = 2
    THEN IF types[1] \in {"Utf8", "Utf8View"} THEN Ok(<<"i32", "i32">>)
         ELSE IF types[1] = "LargeUtf8" THEN Ok(<<"i64", "i64">>)
         ELSE Err(<<"Unsupported data type for function rpad", types[1]>>)
    ELSE IF Len(types) = 3
    THEN IF types[1] \in {"Utf8", "Utf8View"} /\ types[3] \in {"Utf8", "Utf8View"}
         THEN Ok(<<"i32", "i32">>)
         ELSE IF types[1] = "LargeUtf8" /\ types[3] = "LargeUtf8"
         THEN Ok(<<"i64", "i64">>)
         ELSE IF types[1] = "LargeUtf8" /\ types[3] \in {"Utf8View", "Utf8"}
         THEN Ok(<<"i64", "i32">>)
         ELSE IF types[1] \in {"Utf8View", "Utf8"} /\ types[3] = "LargeUtf8"
         THEN Ok(<<"i32", "i64">>)
         ELSE Err(<<"unsupported arguments type for rpad", types[1], types[3]>>)
    ELSE Err(<<"unsupported arguments number for rpad", Len(types)>>)

\* as_string_view_array: the downcast succeeds on a Utf8View column
as_string_view_array(t) ==
    IF t = "Utf8View" THEN Ok("view") ELSE Err(<<"could not cast", t>>)

\* as_generic_string_array::<O>: the downcast succeeds on a Utf8 column for
\* O = i32 and on a LargeUtf8 column for O = i64
as_generic_string_array(O, t) ==
    IF (O = "i32" /\ t = "Utf8") \/ (O = "i64" /\ t = "LargeUtf8")
    THEN Ok(O)
    ELSE Err(<<"could not cast", t>>)

\* as_int64_array: the downcast succeeds on an Int64 column
as_int64_array(t) ==
    IF t = "Int64" THEN Ok("int64") ELSE Err(<<"could not cast", t>>)

\* rpad: the third argument's accessor, in the (3, _) arms
rpad_fill_array(F, t) ==
    IF t = "Utf8View" THEN as_string_view_array(t)
    ELSE IF t \in {"Utf8", "LargeUtf8"} THEN as_generic_string_array(F, t)
    ELSE Err(<<"unsupported type for rpad's third operator", t>>)

\* rpad::<S, F>: the accessors taken before process_rpad! runs (each `?`
\* returns the first failed downcast), as <<string_array, fill_array>>
rpad_arrays(S, F, types) ==
    IF Len(types) \in {2, 3}
    THEN LET sa == IF types[1] = "Utf8View"
                   THEN as_string_view_array(types[1])
                   ELSE as_generic_string_array(S, types[1])
             la == as_int64_array(types[2])
             fa == IF Len(types) = 3 THEN rpad_fill_array(F, types[3])
                                     ELSE Ok("-")
         IN  IF sa.tag = "Err" THEN sa
             ELSE IF la.tag = "Err" THEN la
             ELSE IF fa.tag = "Err" THEN fa
             ELSE Ok(<<sa.val, fa.val>>)
    ELSE Err(<<"rpad requires 2 or 3 arguments with corresponding types",
               Len(types), types>>)

\* variant: the column is always collected as Utf8
result_type_narrow(S) == "Utf8"

\* GenericStringArray<StringArrayLen>: the column type that is collected
result_type(S) == IF S = "i64" THEN "LargeUtf8" ELSE "Utf8"

\* the closure of process_rpad! on row i of the argument columns
map_row(a, i) ==
    IF Len(a) = 2
    THEN process_rpad2(a[1].values[i], a[2].values[i])
    ELSE process_rpad3(a[1].values[i], a[2].values[i], a[3].values[i])

\* variant: an Err item is skipped instead of ending the iteration
collect_next_skip_errors(buf, r) ==
    IF r.tag = "Err" THEN [buf |-> buf, res |-> NotRun]
    ELSE [buf |-> Append(buf, r.val), res |-> NotRun]

\* collect::<Result<GenericStringArray<_>>>() taking one more item: the
\* first Err ends the iteration and drops what was collected
collect_next(buf, r) ==
    IF r.tag = "Err" THEN [buf |-> <<>>, res |-> r]
    ELSE [buf |-> Append(buf, r.val), res |-> NotRun]

\* rows of the columns of a supported call
CallStrings == {None, Some(<<"a", "b">>)}
CallLengths == {None, Some(i64_of(MaxLength)), Some(i32_max_as_i64),
                Some(TooLarge), Some(I64(1, 1))}
CallFills   == {None, Some(<<>>), Some(<<"b">>)}

\* a row padded to i32::MAX characters is not built
Materialised(n, r) ==
    (r[1] # None /\ r[2] = Some(i32_max_as_i64)) =>
        (n = 3 /\ r[3] \in {None, Some(<<>>)})

CallRows(n) ==
    {r \in (IF n = 2 THEN CallStrings \X CallLengths
                     ELSE CallStrings \X CallLengths \X CallFills) :
        Materialised(n, r)}

Columns(types, rows) ==
    [k \in 1..Len(types) |->
        Column(types[k], [i \in 1..Len(rows) |-> rows[i][k]])]

NullRows(k, n) == [i \in 1..n |-> [j \in 1..k |-> None]]

TypeLists == UNION {[1..k -> DataTypes] : k \in 0..MaxArgs}

Init ==
    /\ RowIdle
    /\ CallIdle
    /\ ChunkIdle

\* RPadFunc::invoke(args): the match on args.len() and the data types
invoke(a) ==
    LET d == invoke_dispatch(TypesOf(a))
    IN  /\ args' = a
        /\ IF d.tag = "Err"
           THEN /\ result' = d
                /\ pc' = "done"
                /\ UNCHANGED <<StringArrayLen, FillArrayLen>>
           ELSE /\ StringArrayLen' = d.val[1]
                /\ FillArrayLen' = d.val[2]
                /\ pc' = "rpad"
                /\ UNCHANGED result
        /\ UNCHANGED <<string_array, fill_array, idx, collected, rowVars, chunkVars>>

\* invoke is handed columns of one of the twelve signatures, or any other
\* list of columns (their rows, which are never read, are nulls);
\* make_scalar_function passes the columns on to rpad unchanged
Invoke ==
    /\ pc = "idle"
    /\ \/ \E sig \in signature, n \in 0..MaxRows :
             \E rows \in [1..n -> CallRows(Len(sig))] :
                invoke(Columns(sig, rows))
       \/ \E ts \in TypeLists \ signature, n \in 0..MaxRows :
             invoke(Columns(ts, NullRows(Len(ts), n)))

\* rpad::<StringArrayLen, FillArrayLen>(args): the match on
\* (args.len(), args[0].data_type()) and the downcasts of the chosen arm
Rpad ==
    /\ pc = "rpad"
    /\ LET d == rpad_arrays(StringArrayLen, FillArrayLen, TypesOf(args))
       IN  IF d.tag = "Err"
           THEN /\ result' = d
                /\ pc' = "done"
                /\ UNCHANGED <<string_array, fill_array>>
           ELSE /\ string_array' = d.val[1]
                /\ fill_array' = d.val[2]
                /\ pc' = "rows"
                /\ UNCHANGED result
    /\ UNCHANGED <<args, StringArrayLen, FillArrayLen, idx, collected,
                   rowVars, chunkVars>>

\* process_rpad!: the zipped iterator yields its next row, the closure maps
\* it and collect takes the item
MapNext ==
    /\ pc = "rows"
    /\ idx < NumRows(args)
    /\ LET c == collect_next(collected, map_row(args, idx + 1))
       IN  /\ idx' = idx + 1
           /\ collected' = c.buf
           /\ IF c.res.tag = "NotRun"
              THEN UNCHANGED <<pc, result>>
              ELSE /\ result' = c.res
                   /\ pc' = "done"
    /\ UNCHANGED <<args, StringArrayLen, FillArrayLen, string_array, fill_array,
                   rowVars, chunkVars>>

\* process_rpad!: the iterator is exhausted, collect returns the column and
\* rpad returns it as an ArrayRef
Finish ==
    /\ pc = "rows"
    /\ idx = NumRows(args)
    /\ result' = Ok(Column(result_type(StringArrayLen), collected))
    /\ pc' = "done"
    /\ UNCHANGED <<args, StringArrayLen, FillArrayLen, string_array, fill_array,
                   idx, collected, rowVars, chunkVars>>

Next == Invoke \/ Rpad \/ MapNext \/ Finish

Spec == Init /\ [][Next]_vars

----------------------------------------------------------------------------
(* SpecChunked: the rows of one supported call processed in one pass and, *)
(* split at `cut`, as two calls on the row ranges 1..cut and cut+1..n     *)

Workers == {"all", "lo", "hi"}

First(w) == IF w = "hi" THEN cut + 1 ELSE 1
Last(w)  == IF w = "lo" THEN cut ELSE NumRows(cargs)

ChunkStrings == {None, Some(<<"a", Mark>>)}
ChunkLengths == {None, Some(i64_of(2)), Some(TooLarge)}
ChunkFills   == {Some(<<"b">>)}

ChunkRows(n) ==
    IF n = 2 THEN ChunkStrings \X ChunkLengths
             ELSE ChunkStrings \X ChunkLengths \X ChunkFills

ChunkTypes(n) == SubSeq(<<"Utf8", "Int64", "Utf8">>, 1, n)

InitChunk ==
    /\ RowIdle
    /\ CallIdle
    /\ \E arity \in {2, 3}, n \in 0..MaxChunkRows :
          \E rows \in [1..n -> ChunkRows(arity)], k \in 0..n :
             /\ cargs = Columns(ChunkTypes(arity), rows)
             /\ cut = k
             /\ wpos = [w \in Workers |-> IF w = "hi" THEN k ELSE 0]
    /\ wbuf = [w \in Workers |-> <<>>]
    /\ wres = [w \in Workers |-> NotRun]
    /\ joined = NotRun

\* process_rpad! in the call of worker w: the next row of its range is
\* mapped and collected
ChunkNext(w) ==
    /\ wres[w].tag = "NotRun"
    /\ wpos[w] < Last(w)
    /\ LET c == collect_next(wbuf[w], map_row(cargs, wpos[w] + 1))
       IN  /\ wpos' = [wpos EXCEPT ![w] = @ + 1]
           /\ wbuf' = [wbuf EXCEPT ![w] = c.buf]
           /\ wres' = [wres EXCEPT ![w] = c.res]
    /\ UNCHANGED <<cargs, cut, joined, rowVars, callVars>>

\* process_rpad! in the call of worker w: its range is exhausted and the
\* column is returned
ChunkFinish(w) ==
    /\ wres[w].tag = "NotRun"
    /\ wpos[w] = Last(w)
    /\ wres' = [wres EXCEPT ![w] = Ok(Column(result_type("i32"), wbuf[w]))]
    /\ UNCHANGED <<cargs, cut, wpos, wbuf, joined, rowVars, callVars>>

\* the caller concatenates the two chunk results in row order; a failed
\* chunk fails the whole
Join ==
    /\ joined.tag = "NotRun"
    /\ wres["lo"].tag # "NotRun"
    /\ wres["hi"].tag # "NotRun"
    /\ joined' =
          IF wres["lo"].tag = "Err" THEN wres["lo"]
          ELSE IF wres["hi"].tag = "Err" THEN wres["hi"]
          ELSE Ok(Column(wres["lo"].val.data_type,
                         wres["lo"].val.values \o wres["hi"].val.values))
    /\ UNCHANGED <<cargs, cut, wpos, wbuf, wres, rowVars, callVars>>

NextChunk == \/ \E w \in Workers : ChunkNext(w)
             \/ \E w \in Workers : ChunkFinish(w)
             \/ Join

SpecChunked == InitChunk /\ [][NextChunk]_vars

----------------------------------------------------------------------------
(* Properties of one row (SpecRow) *)

NonNull2 == string # None /\ length # None
NonNull3 == NonNull2 /\ fill # None

\* the length of the row is in 0 ..= i32::MAX once negatives count as 0
InRange == length # None /\ ~i64_gt(length[1], i32_max_as_i64)

\* the target length, negative lengths counted as 0
Target == IF length[1].hi < 0 THEN 0 ELSE length[1].lo

GraphemeCount == Len(graphemes(string[1]))

FirstGraphemes(n) == concat(SubSeq(graphemes(string[1]), 1, n))

\* C2: a row with a null source, a null length or (three arguments) a null
\* fill gives a null result and no error, whatever its other values are, and
\* a row without a null never gives a null result.
C2_NullPropagation ==
    /\ out2 # NotRun =>
          ((out2 = Ok(None)) <=> (string = None \/ length = None))
    /\ out3 # NotRun =>
          ((out3 = Ok(None)) <=> (string = None \/ length = None \/ fill = None))

C2_Witness ==
    /\ out3 = Ok(None)
    /\ out2 = length_too_large(TooLarge)
    /\ string # None
    /\ length = Some(TooLarge)
    /\ fill = None

\* C4: when the target length is at most the number of graphemes of the
\* source, the result is the concatenation of the first `length` graphemes
\* of the source, in both forms and for any fill, so it has at most `length`
\* graphemes.
C4_TruncatesByGrapheme ==
    /\ (out2 # NotRun /\ NonNull2 /\ InRange /\ Target <= GraphemeCount) =>
          /\ out2 = Ok(Some(FirstGraphemes(Target)))
          /\ Len(graphemes(out2.val[1])) <= Target
    /\ (out3 # NotRun /\ NonNull3 /\ InRange /\ Target <= GraphemeCount) =>
          /\ out3 = Ok(Some(FirstGraphemes(Target)))
          /\ Len(graphemes(out3.val[1])) <= Target

C4_Witness ==
    /\ string = Some(<<"a", Mark, "b">>)
    /\ length = Some(i64_of(1))
    /\ fill = Some(<<"b">>)
    /\ out2 = Ok(Some(<<"a", Mark>>))
    /\ out3 = Ok(Some(<<"a", Mark>>))

\* C5: in the three-argument form, when length >= grapheme count of the
\* source, the result is the source followed by (length - grapheme count)
\* padding characters, the i-th (from 0) being fill_chars[i mod len]; with
\* an empty fill the result is the source unchanged.
C5_PaddingCyclesFill ==
    (out3 # NotRun /\ NonNull3 /\ InRange /\ length[1].hi = 0
        /\ length[1].lo >= GraphemeCount) =>
        /\ out3.tag = "Ok"
        /\ out3.val # None
        /\ LET r   == out3.val[1]
               s   == string[1]
               f   == fill[1]
               pad == IF f = <<>> THEN 0 ELSE length[1].lo - GraphemeCount
           IN  /\ Len(r) = Len(s) + pad
               /\ SubSeq(r, 1, Len(s)) = s
               /\ \A i \in 0..(pad - 1) :
                     r[Len(s) + 1 + i] = f[(i % Len(f)) + 1]

C5_Witness ==
    /\ string = Some(<<"b">>)
    /\ length = Some(i64_of(4))
    /\ fill = Some(<<"a", Space>>)
    /\ out3 = Ok(Some(<<"b", "a", Space, "a">>))

C7_NonPositiveGivesEmpty ==
    LET nonpos == i64_lt(length[1], i64_of(1))
    IN  /\ (out2 # NotRun /\ NonNull2 /\ nonpos) => out2 = Ok(Some(<<>>))
        /\ (out3 # NotRun /\ NonNull3 /\ nonpos) => out3 = Ok(Some(<<>>))

C7_Witness ==
    /\ string = Some(<<"a", "b">>)
    /\ length = Some(i64_of(-1))
    /\ fill = Some(<<"b">>)
    /\ out2 = Ok(Some(<<>>))
    /\ out3 = Ok(Some(<<>>))

\* C9: rpad(source, length) and rpad(source, length, ' ') give the same
\* outcome: the same string, both null, or the same error.
C9_DefaultFillAgrees ==
    (out2 # NotRun /\ out3 # NotRun /\ fill = Some(<<Space>>)) => out2 = out3

C9_Witness ==
    /\ fill = Some(<<Space>>)
    /\ string = Some(<<Mark>>)
    /\ length = Some(i64_of(0))
    /\ out2 = Ok(Some(<<>>))
    /\ out3 = Ok(Some(<<>>))

----------------------------------------------------------------------------
(* Properties of one call (Spec) *)

Supported == TypesOf(args) \in signature

Returned == pc = "done" /\ result.tag = "Ok"

TextTypesOfCall ==
    {args[1].data_type} \cup (IF Len(args) = 3 THEN {args[3].data_type} ELSE {})

LengthAbove(i) ==
    /\ args[2].values[i] # None
    /\ i64_gt(args[2].values[i][1], i32_max_as_i64)

\* row i holds no null and its length is above i32::MAX
Offending(i) ==
    /\ LengthAbove(i)
    /\ \A k \in 1..Len(args) : args[k].values[i] # None

FirstOffending ==
    CHOOSE i \in 1..NumRows(args) :
        Offending(i) /\ \A j \in 1..(i - 1) : ~Offending(j)

\* C3 as stated: whenever some row of a supported call holds a length above
\* 2147483647 the call fails with the length-too-large error, whatever the
\* source and the fill of that row are.
C3_AnyLengthAboveFails ==
    (pc = "done" /\ Supported /\ \E i \in 1..NumRows(args) : LengthAbove(i)) =>
        /\ result.tag = "Err"
        /\ result.val[1] = "rpad requested length too large"

\* C3 amended: a supported call fails exactly when some row without a null
\* (source, length and, with three arguments, fill) holds a length above
\* 2147483647; the error carries the length of the first such row and no
\* column is returned, not even for the rows before it; a length of exactly
\* 2147483647 raises no error.
C3_OffendingRowFails ==
    (pc = "done" /\ Supported) =>
        IF \E i \in 1..NumRows(args) : Offending(i)
        THEN /\ result = length_too_large(args[2].values[FirstOffending][1])
             /\ collected = <<>>
        ELSE /\ result.tag = "Ok"
             /\ Len(result.val.values) = NumRows(args)

C3_Witness ==
    /\ pc = "done"
    /\ Len(args) = 3
    /\ NumRows(args) = 2
    /\ args[1].values[1] # None
    /\ args[2].values[1] = Some(i32_max_as_i64)
    /\ args[3].values[1] = Some(<<>>)
    /\ Offending(2)
    /\ args[2].values[2] = Some(I64(1, 1))
    /\ result = length_too_large(I64(1, 1))

UnsupportedErrors ==
    { "Unsupported data type for function rpad",
      "unsupported arguments type for rpad",
      "unsupported arguments number for rpad",
      "unsupported type for rpad's third operator",
      "rpad requires 2 or 3 arguments with corresponding types",
      "could not cast" }

\* the accessor that reads a column of storage variant t
AccessorOf(t) ==
    IF t = "Utf8View" THEN "view" ELSE IF t = "LargeUtf8" THEN "i64" ELSE "i32"

----------------------------------------------------------------------------
(* Properties of the chunked run (SpecChunked) *)

\* C10: the column has one row per input row, row i being what the closure
\* gives on row i alone, and the two chunks, run in any interleaving and
\* concatenated in row order, give the column of the one-pass run and fail
\* exactly when it fails.
C10_ChunksAgree ==
    /\ wres["all"].tag = "Ok" =>
          /\ Len(wres["all"].val.values) = NumRows(cargs)
          /\ \A i \in 1..NumRows(cargs) :
                Ok(wres["all"].val.values[i]) = map_row(cargs, i)
    /\ (wres["all"].tag # "NotRun" /\ joined.tag # "NotRun") =>
          /\ joined.tag = wres["all"].tag
          /\ joined.tag = "Ok" => joined.val = wres["all"].val

C10_Witness ==
    /\ NumRows(cargs) = 3
    /\ cut = 1
    /\ Len(cargs) = 3
    /\ joined.tag = "Ok"
    /\ wres["all"].tag = "Ok"
    /\ joined.val.values =
          <<None, Some(<<"a", Mark, "b">>), Some(<<"a", Mark, "b">>)>>

====
